---- MODULE Spec2Model ----
(***************************************************************************)
(* Provider-abstraction layer of qwen-code: the OpenAI-compatible adapter *)
(* (response assembly and the streaming normalizer), the non-interactive  *)
(* auth resolution and the content-generator factory.                     *)
(*                                                                         *)
(* Conventions.  An optional JavaScript value (undefined or a value) is a *)
(* sequence of length 0 or 1: None is undefined, Some(v) is v.  Text is a *)
(* TLA+ string.  The arguments text of a tool call is a sequence of JSON  *)
(* tokens ("{", "}", ",", a key with its colon, a digit); string          *)
(* concatenation is \o on both, and a delta boundary falls between two    *)
(* tokens.                                                                 *)
(***************************************************************************)
EXTENDS Integers, Sequences, FiniteSets, TLC

(***************************************************************************)
(* Bounds                                                                  *)
(***************************************************************************)
MaxChunks == 4

None == <<>>
Some(v) == <<v>>

(***************************************************************************)
(* JSON.parse on the token alphabet: an object with number members, or a  *)
(* bare number.  A later duplicate key wins, as in JSON.parse.            *)
(***************************************************************************)
Digits == {"1", "2"}
KeyTokens == {"a:", "b:"}

KeyOf(t) == IF t = "a:" THEN "a" ELSE "b"

DigitValue(t) == IF t = "1" THEN 1 ELSE 2

IsNumber(s) == Len(s) > 0 /\ \A i \in 1..Len(s) : s[i] \in Digits

RECURSIVE NumberValue(_)
NumberValue(s) ==
    IF s = <<>> THEN 0
    ELSE NumberValue(SubSeq(s, 1, Len(s) - 1)) * 10 + DigitValue(s[Len(s)])

JsonObject(m) == [kind |-> "obj", members |-> m, n |-> 0]
JsonNumber(k) == [kind |-> "num", members |-> <<>>, n |-> k]
EmptyArgs == JsonObject(<<>>)

ParseOk(v) == [ok |-> TRUE, value |-> v]
SyntaxError == [ok |-> FALSE, value |-> EmptyArgs]

FirstComma(s) ==
    IF \E i \in 1..Len(s) : s[i] = ","
    THEN CHOOSE i \in 1..Len(s) : s[i] = "," /\ \A j \in 1..(i - 1) : s[j] # ","
    ELSE Len(s) + 1

RECURSIVE ParseMembers(_, _)
ParseMembers(s, acc) ==
    IF s = <<>> THEN SyntaxError
    ELSE LET e == FirstComma(s)
             m == SubSeq(s, 1, e - 1)
             rest == SubSeq(s, e + 1, Len(s))
         IN  IF Len(m) >= 2 /\ m[1] \in KeyTokens /\ IsNumber(Tail(m))
             THEN LET acc2 == (KeyOf(m[1]) :> NumberValue(Tail(m))) @@ acc
                  IN  IF e > Len(s) THEN ParseOk(JsonObject(acc2))
                      ELSE ParseMembers(rest, acc2)
             ELSE SyntaxError

JSONParse(s) ==
    IF IsNumber(s) THEN ParseOk(JsonNumber(NumberValue(s)))
    ELSE IF Len(s) >= 2 /\ s[1] = "{" /\ s[Len(s)] = "}"
         THEN IF Len(s) = 2 THEN ParseOk(EmptyArgs)
              ELSE ParseMembers(SubSeq(s, 2, Len(s) - 1), <<>>)
         ELSE SyntaxError

(***************************************************************************)
(* Provider chunks of a chat-completions stream                            *)
(***************************************************************************)
ToolCallDelta(i, id, name, arguments) ==
    [index |-> i, id |-> id, name |-> name, arguments |-> arguments]

Chunk(toolCalls, content, finish) ==
    [choices |-> << [delta |-> [tool_calls |-> toolCalls, content |-> content],
                     finish_reason |-> finish] >>]

NoChoiceChunk == [choices |-> <<>>]

ArgsA1 == <<"{", "a:">>
ArgsA2 == <<"1", ",", "b:">>
ArgsA3 == <<"2", "}">>

LongText == "0123456789"
ShortText == "Hi, "

ToolChunks ==
    { Chunk(Some(<<ToolCallDelta(0, Some("call_0"), Some("f"), Some(ArgsA1))>>), None, None),
      Chunk(Some(<<ToolCallDelta(0, None, None, Some(ArgsA2))>>), None, None),
      Chunk(Some(<<ToolCallDelta(0, None, None, Some(ArgsA3))>>), None, None),
      Chunk(Some(<<ToolCallDelta(1, Some("call_1"), Some("g"), Some(<<"{", "b:", "2", "}">>))>>),
            None, None),
      Chunk(Some(<<ToolCallDelta(1, Some("call_1"), Some("g"), Some(<<"{">>)),
                   ToolCallDelta(0, Some("call_0"), Some("f"), Some(<<"{", "}">>))>>),
            None, None),
      Chunk(Some(<<ToolCallDelta(1, None, None, Some(<<"}">>))>>), Some(LongText), None),
      Chunk(Some(<<>>), None, None) }

TextChunks ==
    { Chunk(None, Some(ShortText), None),
      Chunk(None, Some(LongText), None),
      Chunk(None, Some(""), None),
      Chunk(None, Some("ok"), Some("stop")) }

FinishChunks ==
    { Chunk(None, None, Some("stop")),
      Chunk(None, None, Some("tool_calls")),
      Chunk(None, None, Some("length")),
      NoChoiceChunk }

ChunkSet == ToolChunks \cup TextChunks \cup FinishChunks

\* chunk.choices[0]?.delta?.tool_calls, ...?.content, chunk.choices[0]?.finish_reason
ChunkToolCalls(c) == IF c.choices = <<>> THEN None ELSE c.choices[1].delta.tool_calls
ChunkContent(c) == IF c.choices = <<>> THEN None ELSE c.choices[1].delta.content
ChunkFinish(c) == IF c.choices = <<>> THEN None ELSE c.choices[1].finish_reason

\* JavaScript truthiness of an optional string (text or arguments tokens)
TruthyText(o) == o # None /\ o[1] # ""
TruthyArgs(o) == o # None /\ o[1] # <<>>

(***************************************************************************)
(* OpenAIAdapter: argument parsing shared by both paths                   *)
(***************************************************************************)
\* Variant: the catch block leaves args undefined instead of {}
ParseArgumentsNoFallback(arguments) ==
    IF TruthyArgs(arguments)
    THEN LET r == JSONParse(arguments[1])
         IN  IF r.ok THEN r.value ELSE [kind |-> "undefined", members |-> <<>>, n |-> 0]
    ELSE EmptyArgs

\* let args = {}; if (arguments) { try { args = JSON.parse(arguments) } catch { args = {} } }
ParseArguments(arguments) ==
    IF TruthyArgs(arguments)
    THEN LET r == JSONParse(arguments[1])
         IN  IF r.ok THEN r.value ELSE EmptyArgs
    ELSE EmptyArgs

OrEmptyText(o) == IF TruthyText(o) THEN o[1] ELSE ""
OrEmptyArgs(o) == IF TruthyArgs(o) THEN o[1] ELSE <<>>

FunctionCall(name, args, id) == [name |-> name, args |-> args, id |-> id]

(***************************************************************************)
(* OpenAIAdapter.generateContentStream: the generator gen()                *)
(***************************************************************************)
FlushThreshold == 10

\* Variant: a delta is merged into the most recent fragment, whatever its index
FindIndexByArrival(buffer, i) == Len(buffer)

\* toolCallsBuffer.findIndex(tc => tc.index === toolCall.index); 0 stands for -1
FindIndex(buffer, i) ==
    IF \E k \in 1..Len(buffer) : buffer[k].index = i
    THEN CHOOSE k \in 1..Len(buffer) :
             buffer[k].index = i /\ \A j \in 1..(k - 1) : buffer[j].index # i
    ELSE 0

MergeToolCall(buffer, toolCall) ==
    LET existingIndex == FindIndex(buffer, toolCall.index)
    IN  IF existingIndex >= 1
        THEN LET existing == buffer[existingIndex]
             IN  [buffer EXCEPT ![existingIndex] =
                    [index |-> existing.index,
                     function |->
                        [name |-> IF TruthyText(toolCall.name)
                                  THEN toolCall.name[1] ELSE existing.function.name,
                         arguments |-> IF TruthyArgs(toolCall.arguments)
                                       THEN existing.function.arguments \o toolCall.arguments[1]
                                       ELSE existing.function.arguments],
                     id |-> IF TruthyText(toolCall.id) THEN toolCall.id ELSE existing.id]]
        ELSE Append(buffer,
                    [index |-> toolCall.index,
                     function |-> [name |-> OrEmptyText(toolCall.name),
                                   arguments |-> OrEmptyArgs(toolCall.arguments)],
                     id |-> toolCall.id])

\* for (const toolCall of chunk.choices[0].delta.tool_calls) { ... }
RECURSIVE MergeToolCalls(_, _)
MergeToolCalls(buffer, toolCalls) ==
    IF toolCalls = <<>> THEN buffer
    ELSE MergeToolCalls(MergeToolCall(buffer, Head(toolCalls)), Tail(toolCalls))

IsDone(c) == ChunkFinish(c) = Some("stop") \/ ChunkFinish(c) = Some("tool_calls")

\* toolCallsBuffer.length > 0 ? toolCallsBuffer.map(...) : undefined
BuildFunctionCalls(buffer) ==
    IF Len(buffer) > 0
    THEN Some([k \in 1..Len(buffer) |->
                 FunctionCall(buffer[k].function.name,
                              ParseArguments(Some(buffer[k].function.arguments)),
                              buffer[k].id)])
    ELSE None

TextPart(t) == [kind |-> "text", text |-> t, name |-> "", args |-> EmptyArgs]
FunctionCallPart(fc) == [kind |-> "functionCall", text |-> "", name |-> fc.name, args |-> fc.args]

BuildParts(text, functionCalls) ==
    LET parts == (IF text # "" THEN <<TextPart(text)>> ELSE <<>>)
                 \o (IF functionCalls # None /\ Len(functionCalls[1]) > 0
                     THEN <<FunctionCallPart(functionCalls[1][1])>> ELSE <<>>)
    IN  IF Len(parts) > 0 THEN parts ELSE <<TextPart("")>>

StreamResponse(buffer, text, c) ==
    LET functionCalls == BuildFunctionCalls(buffer)
    IN  [parts |-> BuildParts(text, functionCalls),
         finishReason |-> ChunkFinish(c),
         text |-> text,
         functionCalls |-> functionCalls]

\* Variant: the threshold of the comment at the inner test (20) instead of 10
ShouldYieldAt20(isDone, flag, content, text) ==
    /\ isDone \/ (~flag /\ TruthyText(content))
    /\ isDone \/ Len(text) >= 20

\* Variant: the outer test does not look at hasToolCalls
ShouldYieldIgnoringToolCalls(isDone, flag, content, text) ==
    /\ isDone \/ TruthyText(content)
    /\ isDone \/ Len(text) >= FlushThreshold

\* if (isDone || (!hasToolCalls && content)) { ... if (isDone || accumulatedText.length >= 10) yield }
ShouldYield(isDone, flag, content, text) ==
    /\ isDone \/ (~flag /\ TruthyText(content))
    /\ isDone \/ Len(text) >= FlushThreshold

\* One iteration of the for-await loop up to the yield (or to the end of the body)
ProcessChunk(st, c) ==
    LET toolCalls == ChunkToolCalls(c)
        content == ChunkContent(c)
        flag == IF toolCalls # None THEN TRUE ELSE st.hasToolCalls
        buffer == IF toolCalls # None
                  THEN MergeToolCalls(st.toolCallsBuffer, toolCalls[1])
                  ELSE st.toolCallsBuffer
        text == IF TruthyText(content) THEN st.accumulatedText \o content[1]
                ELSE st.accumulatedText
    IN  [toolCallsBuffer |-> buffer,
         accumulatedText |-> text,
         hasToolCalls |-> flag,
         yields |-> ShouldYield(IsDone(c), flag, content, text),
         response |-> StreamResponse(buffer, text, c)]

\* Variant: the else branch of the reset is missing
ResetKeepsText(st, isDone) ==
    IF isDone
    THEN [toolCallsBuffer |-> <<>>, accumulatedText |-> "", hasToolCalls |-> FALSE]
    ELSE [toolCallsBuffer |-> st.toolCallsBuffer, accumulatedText |-> st.accumulatedText,
          hasToolCalls |-> st.hasToolCalls]

\* Variant: a completion flush clears the text only
ResetKeepsToolCalls(st, isDone) ==
    [toolCallsBuffer |-> st.toolCallsBuffer, accumulatedText |-> "",
     hasToolCalls |-> st.hasToolCalls]

\* The statements after the yield
ResetAfterYield(st, isDone) ==
    IF isDone
    THEN [toolCallsBuffer |-> <<>>, accumulatedText |-> "", hasToolCalls |-> FALSE]
    ELSE [toolCallsBuffer |-> st.toolCallsBuffer, accumulatedText |-> "",
          hasToolCalls |-> st.hasToolCalls]

(***************************************************************************)
(* OpenAIAdapter.generateContent: one provider reply                      *)
(***************************************************************************)
Message(content, toolCalls) == [content |-> content, tool_calls |-> toolCalls]

Reply(message, finish) == [choices |-> << [message |-> message, finish_reason |-> finish] >>]

ReplySet ==
    { Reply(Some(Message(Some("hello"), None)), Some("stop")),
      Reply(Some(Message(None, None)), Some("stop")),
      Reply(None, Some("stop")),
      Reply(Some(Message(None,
                 Some(<<ToolCallDelta(0, Some("call_0"), Some("f"), Some(ArgsA1)),
                        ToolCallDelta(1, Some("call_1"), Some("g"),
                                      Some(<<"{", "b:", "2", "}">>))>>))),
            Some("tool_calls")),
      Reply(Some(Message(None,
                 Some(<<ToolCallDelta(0, Some("call_0"), Some("f"),
                                      Some(ArgsA1 \o ArgsA2 \o ArgsA3))>>))),
            Some("tool_calls")),
      Reply(Some(Message(Some("ok"),
                 Some(<<ToolCallDelta(0, Some("call_0"), None, None)>>))),
            Some("tool_calls")) }

\* completion.choices[0].message.tool_calls?.map(...) || undefined
ReplyFunctionCalls(toolCalls) ==
    IF toolCalls = None THEN None
    ELSE Some([k \in 1..Len(toolCalls[1]) |->
                 FunctionCall(OrEmptyText(toolCalls[1][k].name),
                              ParseArguments(toolCalls[1][k].arguments),
                              toolCalls[1][k].id)])

\* An error is its message, a sequence of text pieces
Returned(response) == [kind |-> "returned", response |-> response, error |-> <<>>]
Threw(error) ==
    [kind |-> "threw",
     response |-> [parts |-> <<>>, finishReason |-> None, text |-> "", functionCalls |-> None],
     error |-> error]

\* The try block of generateContent; reading .content of an absent message is a TypeError
AssembleReply(reply) ==
    LET choice == reply.choices[1]
    IN  IF choice.message = None
        THEN Threw(<<"TypeError: Cannot read properties of undefined (reading 'content')">>)
        ELSE LET message == choice.message[1]
                 text == OrEmptyText(message.content)
             IN  Returned([parts |-> <<TextPart(text)>>,
                           finishReason |-> choice.finish_reason,
                           text |-> text,
                           functionCalls |-> ReplyFunctionCalls(message.tool_calls)])

(***************************************************************************)
(* validateNonInteractiveAuth (packages/cli)                               *)
(***************************************************************************)
LOGIN_WITH_GOOGLE == "oauth-personal"
USE_GEMINI == "gemini-api-key"
USE_VERTEX_AI == "vertex-ai"
CLOUD_SHELL == "cloud-shell"
USE_OPENAI == "openai"

AuthType == {LOGIN_WITH_GOOGLE, USE_GEMINI, USE_VERTEX_AI, CLOUD_SHELL, USE_OPENAI}

\* The four entries of the auth dialog: label and value
AuthDialogItems ==
    << [label |-> "Gemini (Google)", value |-> USE_GEMINI],
       [label |-> "OpenAI", value |-> USE_OPENAI],
       [label |-> "DeepSeek", value |-> USE_OPENAI],
       [label |-> "Ollama", value |-> USE_OPENAI] >>

\* process.env as read by getAuthTypeFromEnv: each variable is unset or a string
AuthEnvSet ==
    [GOOGLE_GENAI_USE_GCA : {None, Some("true"), Some("false")},
     GOOGLE_GENAI_USE_VERTEXAI : {None, Some("true"), Some("false")},
     GEMINI_API_KEY : {None, Some(""), Some("gemini-key")},
     OPENAI_API_KEY : {None, Some(""), Some("openai-key")}]

ProviderSet == {None, Some(""), Some("gemini"), Some("openai"), Some("deepseek"),
                Some("ollama"), Some("local")}

\* Variant: the API keys are looked at before the flags
getAuthTypeFromEnvKeysFirst(e) ==
    IF TruthyText(e.GEMINI_API_KEY) THEN Some(USE_GEMINI)
    ELSE IF TruthyText(e.OPENAI_API_KEY) THEN Some(USE_OPENAI)
    ELSE IF e.GOOGLE_GENAI_USE_GCA = Some("true") THEN Some(LOGIN_WITH_GOOGLE)
    ELSE IF e.GOOGLE_GENAI_USE_VERTEXAI = Some("true") THEN Some(USE_VERTEX_AI)
    ELSE None

getAuthTypeFromEnv(e) ==
    IF e.GOOGLE_GENAI_USE_GCA = Some("true") THEN Some(LOGIN_WITH_GOOGLE)
    ELSE IF e.GOOGLE_GENAI_USE_VERTEXAI = Some("true") THEN Some(USE_VERTEX_AI)
    ELSE IF TruthyText(e.GEMINI_API_KEY) THEN Some(USE_GEMINI)
    ELSE IF TruthyText(e.OPENAI_API_KEY) THEN Some(USE_OPENAI)
    ELSE None

\* Variant: the deepseek/ollama branch is missing
ResolveOpenAIOnly(configured, prov, e) ==
    IF TruthyText(prov) /\ prov # Some("gemini")
    THEN [effectiveAuthType |-> IF prov = Some("openai") THEN Some(USE_OPENAI) ELSE configured,
          envConsulted |-> FALSE]
    ELSE [effectiveAuthType |-> IF configured # None THEN configured
                                ELSE getAuthTypeFromEnv(e),
          envConsulted |-> configured = None]

\* Lines 33-47: the effective auth type, and whether getAuthTypeFromEnv was called
ResolveEffectiveAuthType(configured, prov, e) ==
    IF TruthyText(prov) /\ prov # Some("gemini")
    THEN [effectiveAuthType |->
             IF prov = Some("openai") THEN Some(USE_OPENAI)
             ELSE IF prov = Some("deepseek") \/ prov = Some("ollama") THEN Some(USE_OPENAI)
             ELSE configured,
          envConsulted |-> FALSE]
    ELSE [effectiveAuthType |-> IF configured # None THEN configured
                                ELSE getAuthTypeFromEnv(e),
          envConsulted |-> configured = None]

VARIABLES
    authPc,              \* "idle", "start", "resolved", "validated", "refreshed", "exited"
    configuredAuthType,
    useExternalAuth,
    provider,            \* nonInteractiveConfig.getProvider()
    env,                 \* process.env
    effectiveAuthType,
    envConsulted,        \* history: getAuthTypeFromEnv was called
    validateCalls,       \* history: the calls of validateAuthMethod and what they returned
    refreshCalls,        \* history: the arguments of config.refreshAuth
    exitCode             \* the argument of process.exit, once called

authVars == <<authPc, configuredAuthType, useExternalAuth, provider, env, effectiveAuthType,
              envConsulted, validateCalls, refreshCalls, exitCode>>

NoEnv == [GOOGLE_GENAI_USE_GCA |-> None, GOOGLE_GENAI_USE_VERTEXAI |-> None,
          GEMINI_API_KEY |-> None, OPENAI_API_KEY |-> None]

AuthIdle ==
    /\ authPc = "idle"
    /\ configuredAuthType = None
    /\ useExternalAuth = None
    /\ provider = None
    /\ env = NoEnv
    /\ effectiveAuthType = None
    /\ envConsulted = FALSE
    /\ validateCalls = <<>>
    /\ refreshCalls = <<>>
    /\ exitCode = None

AuthInit ==
    /\ authPc = "start"
    /\ configuredAuthType \in {None} \cup {Some(a) : a \in AuthType}
    /\ useExternalAuth \in {None, Some(FALSE), Some(TRUE)}
    /\ provider \in ProviderSet
    /\ env \in AuthEnvSet
    /\ effectiveAuthType = None
    /\ envConsulted = FALSE
    /\ validateCalls = <<>>
    /\ refreshCalls = <<>>
    /\ exitCode = None

\* Lines 33-47
ResolveAuth ==
    /\ authPc = "start"
    /\ LET r == ResolveEffectiveAuthType(configuredAuthType, provider, env)
       IN  /\ effectiveAuthType' = r.effectiveAuthType
           /\ envConsulted' = r.envConsulted
    /\ authPc' = "resolved"
    /\ UNCHANGED <<configuredAuthType, useExternalAuth, provider, env, validateCalls,
                   refreshCalls, exitCode>>

\* Variant: the error is logged but process.exit is not called
LogUnresolved ==
    /\ authPc = "resolved"
    /\ effectiveAuthType = None
    /\ authPc' = "validated"
    /\ UNCHANGED <<configuredAuthType, useExternalAuth, provider, env, effectiveAuthType,
                   envConsulted, validateCalls, refreshCalls, exitCode>>

\* Lines 49-54: if (!effectiveAuthType) { console.error(...); process.exit(1) }
ExitUnresolved ==
    /\ authPc = "resolved"
    /\ effectiveAuthType = None
    /\ exitCode' = Some(1)
    /\ authPc' = "exited"
    /\ UNCHANGED <<configuredAuthType, useExternalAuth, provider, env, effectiveAuthType,
                   envConsulted, validateCalls, refreshCalls>>

\* Lines 56-62: validateAuthMethod returns an error message or null
ValidateAuth ==
    /\ authPc = "resolved"
    /\ effectiveAuthType # None
    /\ IF useExternalAuth = Some(TRUE)
       THEN /\ authPc' = "validated"
            /\ UNCHANGED <<validateCalls, exitCode>>
       ELSE \E err \in {None, Some("invalid auth method")} :
               /\ validateCalls' = Append(validateCalls,
                                          [authType |-> effectiveAuthType[1], err |-> err])
               /\ IF err # None
                  THEN exitCode' = Some(1) /\ authPc' = "exited"
                  ELSE exitCode' = exitCode /\ authPc' = "validated"
    /\ UNCHANGED <<configuredAuthType, useExternalAuth, provider, env, effectiveAuthType,
                   envConsulted, refreshCalls>>

\* Line 64: await nonInteractiveConfig.refreshAuth(effectiveAuthType)
RefreshAuth ==
    /\ authPc = "validated"
    /\ refreshCalls' = Append(refreshCalls, effectiveAuthType)
    /\ authPc' = "refreshed"
    /\ UNCHANGED <<configuredAuthType, useExternalAuth, provider, env, effectiveAuthType,
                   envConsulted, validateCalls, exitCode>>

(***************************************************************************)
(* createContentGenerator (packages/core): both revisions in the sources  *)
(* A URL is a sequence of pieces, so that a suffix can be recognised.     *)
(***************************************************************************)
V1 == "/v1"

DefaultOpenAIBase == <<"https://api.openai.com", V1>>
DefaultDeepSeekBase == <<"https://api.deepseek.com", V1>>
DefaultOllamaBase == <<"http://localhost:11434">>

\* a || b on optional text, and on optional URLs
OrText(a, b) == IF TruthyText(a) THEN a ELSE b
OrUrl(a, b) == IF TruthyArgs(a) THEN a ELSE b

Generator(kind, apiKey, model, prov, baseURL, vertexai, authType) ==
    [kind |-> kind, apiKey |-> apiKey, model |-> model, provider |-> prov,
     baseURL |-> baseURL, vertexai |-> vertexai, authType |-> authType]

Built(g) == [kind |-> "built", generator |-> Some(g), error |-> ""]
Failed(msg) == [kind |-> "threw", generator |-> None, error |-> msg]

\* provider = config.provider || process.env.GEMINI_PROVIDER || 'gemini'
EffectiveProvider(config, e) ==
    OrText(config.provider, OrText(e.GEMINI_PROVIDER, Some("gemini")))[1]

\* Variant: the deepseek branch does not test the key
OpenAICompatibleBranchNoKeyTest(prov, config, e) ==
    IF prov = "openai" /\ ~TruthyText(config.apiKey)
    THEN Failed("OpenAI API key is required")
    ELSE Built(Generator("OpenAIContentGenerator", config.apiKey, config.model,
                         Some(prov), config.baseURL, None, None))

\* The openai, deepseek and ollama branches, the same in both revisions
OpenAICompatibleBranch(prov, config, e) ==
    IF prov = "openai"
    THEN IF ~TruthyText(config.apiKey) THEN Failed("OpenAI API key is required")
         ELSE Built(Generator("OpenAIContentGenerator", config.apiKey,
                              OrText(config.model, OrText(e.OPENAI_API_MODEL, Some("gpt-3.5-turbo"))),
                              Some("openai"),
                              OrUrl(config.baseURL, OrUrl(e.OPENAI_BASE_URL, Some(DefaultOpenAIBase))),
                              None, None))
    ELSE IF prov = "deepseek"
    THEN IF ~TruthyText(config.apiKey) THEN Failed("DeepSeek API key is required")
         ELSE Built(Generator("OpenAIContentGenerator", config.apiKey,
                              OrText(config.model, OrText(e.DEEPSEEK_API_MODEL, Some("deepseek-chat"))),
                              Some("deepseek"),
                              OrUrl(config.baseURL,
                                 OrUrl(e.DEEPSEEK_API_BASE, Some(DefaultDeepSeekBase))),
                              None, None))
    ELSE Built(Generator("OpenAIContentGenerator", Some(""),
                         OrText(config.model, OrText(e.OLLAMA_MODEL, Some("llama2"))),
                         Some("ollama"),
                         Some(OrUrl(config.baseURL,
                                 OrUrl(e.OLLAMA_BASE_URL, Some(DefaultOllamaBase)))[1] \o <<V1>>),
                         None, None))

\* src/unnamed/part_002: after the provider branches the auth type decides
createContentGenerator002(config, e) ==
    LET prov == EffectiveProvider(config, e)
    IN  IF prov \in {"openai", "deepseek", "ollama"} THEN OpenAICompatibleBranch(prov, config, e)
        ELSE IF config.authType = Some(LOGIN_WITH_GOOGLE) \/ config.authType = Some(CLOUD_SHELL)
        THEN Built(Generator("CodeAssist", None, None, None, None, None, config.authType))
        ELSE IF config.authType = Some(USE_GEMINI) \/ config.authType = Some(USE_VERTEX_AI)
        THEN Built(Generator("GoogleGenAI",
                             IF config.apiKey = Some("") THEN None ELSE config.apiKey,
                             None, None, None, config.vertexai, None))
        ELSE IF config.authType = Some(USE_OPENAI)
        THEN IF ~TruthyText(config.apiKey) THEN Failed("OpenAI API key is required")
             ELSE Built(Generator("OpenAIContentGenerator", config.apiKey, config.model,
                                  config.provider, config.baseURL, None, None))
        ELSE Failed("Unsupported authType or provider")

\* Variant: an unknown provider falls back to the Gemini branch
createContentGenerator001DefaultsToGemini(config, e) ==
    LET prov == EffectiveProvider(config, e)
    IN  IF prov \in {"openai", "deepseek", "ollama"} THEN OpenAICompatibleBranch(prov, config, e)
        ELSE IF TruthyText(config.apiKey)
        THEN Built(Generator("GoogleGenAI", config.apiKey, None, None, None,
                             Some(FALSE), None))
        ELSE Built(Generator("CodeAssist", None, None, None, None, None, Some(USE_GEMINI)))

\* src/unnamed/part_001: the provider alone decides
createContentGenerator001(config, e) ==
    LET prov == EffectiveProvider(config, e)
    IN  IF prov \in {"openai", "deepseek", "ollama"} THEN OpenAICompatibleBranch(prov, config, e)
        ELSE IF prov = "gemini"
        THEN IF TruthyText(config.apiKey)
             THEN Built(Generator("GoogleGenAI", config.apiKey, None, None, None,
                                  Some(FALSE), None))
             ELSE Built(Generator("CodeAssist", None, None, None, None, None,
                                  Some(USE_GEMINI)))
        ELSE Failed("Unsupported provider")

createContentGenerator(rev, config, e) ==
    IF rev = "part_001" THEN createContentGenerator001(config, e)
    ELSE createContentGenerator002(config, e)

(***************************************************************************)
(* createContentGeneratorConfig (packages/core): both revisions           *)
(***************************************************************************)
DEFAULT_GEMINI_MODEL == "DEFAULT_GEMINI_MODEL"

\* The ContentGeneratorConfig before any credential is set
BaseGeneratorConfig(cliConfig) ==
    [provider |-> cliConfig.provider,
     apiKey |-> None,
     authType |-> cliConfig.authType,
     baseURL |-> None,
     model |-> OrText(cliConfig.model, Some(DEFAULT_GEMINI_MODEL)),
     vertexai |-> None]

\* src/unnamed/part_002: the credential is chosen by the auth type
createContentGeneratorConfig002(cliConfig, keys) ==
    LET base == BaseGeneratorConfig(cliConfig)
        authType == cliConfig.authType
    IN  IF authType = Some(LOGIN_WITH_GOOGLE) \/ authType = Some(CLOUD_SHELL) THEN base
        ELSE IF authType = Some(USE_GEMINI) /\ TruthyText(keys.GEMINI_API_KEY)
        THEN [base EXCEPT !.apiKey = keys.GEMINI_API_KEY, !.vertexai = Some(FALSE)]
        ELSE IF /\ authType = Some(USE_VERTEX_AI)
                /\ \/ TruthyText(keys.GOOGLE_API_KEY)
                   \/ (TruthyText(keys.GOOGLE_CLOUD_PROJECT)
                         /\ TruthyText(keys.GOOGLE_CLOUD_LOCATION))
        THEN [base EXCEPT !.apiKey = OrText(keys.GOOGLE_API_KEY, None),
                          !.vertexai = Some(TRUE)]
        ELSE IF authType = Some(USE_OPENAI) /\ TruthyText(keys.OPENAI_API_KEY)
        THEN [base EXCEPT !.apiKey = keys.OPENAI_API_KEY,
                          !.model = IF base.model = Some(DEFAULT_GEMINI_MODEL)
                                    THEN OrText(keys.OPENAI_MODEL, Some(DEFAULT_GEMINI_MODEL))
                                    ELSE base.model]
        ELSE base

\* src/unnamed/part_001: the credential is chosen by the provider
createContentGeneratorConfig001(cliConfig, keys, e) ==
    LET base == BaseGeneratorConfig(cliConfig)
        prov == OrText(cliConfig.provider, Some("gemini"))[1]
    IN  IF prov = "openai" /\ TruthyText(keys.OPENAI_API_KEY)
        THEN [base EXCEPT !.apiKey = keys.OPENAI_API_KEY, !.baseURL = e.OPENAI_BASE_URL]
        ELSE IF prov = "deepseek" /\ TruthyText(keys.DEEPSEEK_API_KEY)
        THEN [base EXCEPT !.apiKey = keys.DEEPSEEK_API_KEY, !.baseURL = e.DEEPSEEK_API_BASE]
        ELSE IF prov = "ollama"
        THEN [base EXCEPT !.baseURL = OrUrl(e.OLLAMA_BASE_URL, Some(DefaultOllamaBase))]
        ELSE IF prov = "gemini" /\ TruthyText(keys.GEMINI_API_KEY)
        THEN [base EXCEPT !.apiKey = keys.GEMINI_API_KEY, !.vertexai = Some(FALSE)]
        ELSE base

createContentGeneratorConfig(rev, cliConfig, keys, e) ==
    IF rev = "part_001" THEN createContentGeneratorConfig001(cliConfig, keys, e)
    ELSE createContentGeneratorConfig002(cliConfig, keys)

\* config.getProvider(), config.getModel() and the authType argument
CliConfigSet ==
    [provider : ProviderSet,
     model : {None, Some("m")},
     authType : {None} \cup {Some(a) : a \in AuthType}]

\* The credentials of process.env
KeyEnvSet ==
    [GEMINI_API_KEY : {None, Some("gemini-key")},
     GOOGLE_API_KEY : {None, Some("google-key")},
     GOOGLE_CLOUD_PROJECT : {None, Some("project")},
     GOOGLE_CLOUD_LOCATION : {Some("location")},
     OPENAI_API_KEY : {None, Some(""), Some("openai-key")},
     DEEPSEEK_API_KEY : {None, Some("deepseek-key")},
     OPENAI_MODEL : {None, Some("gpt-4o")}]

ConfigSet ==
    [provider : ProviderSet \cup {Some("foo")},
     apiKey : {None, Some(""), Some("key")},
     authType : {None} \cup {Some(a) : a \in AuthType},
     baseURL : {None, Some(<<"http://host:11434">>), Some(<<"http://host:11434", V1>>)},
     model : {None, Some("m")},
     vertexai : {None}]

FactoryEnvSet ==
    [GEMINI_PROVIDER : {None, Some("openai"), Some("ollama")},
     OPENAI_BASE_URL : {None, Some(<<"https://proxy", V1>>)},
     OLLAMA_BASE_URL : {None, Some(<<"http://ollama:11434", V1>>)},
     DEEPSEEK_API_BASE : {None},
     OPENAI_API_MODEL : {None},
     DEEPSEEK_API_MODEL : {None},
     OLLAMA_MODEL : {None}]

VARIABLES
    facPc,         \* "idle", "start", "built", "threw"
    revision,      \* which of the two revisions of the factory runs
    cgConfig,      \* the ContentGeneratorConfig passed in
    factoryEnv,    \* process.env as read by the factory
    constructed,   \* history: the generators constructed
    factoryError,  \* the message of the error thrown, if any
    cli,           \* the arguments of createContentGeneratorConfig, if it was called
    keyEnv         \* the credentials in process.env

factoryVars == <<facPc, revision, cgConfig, factoryEnv, constructed, factoryError, cli, keyEnv>>

NoKeyEnv == [GEMINI_API_KEY |-> None, GOOGLE_API_KEY |-> None, GOOGLE_CLOUD_PROJECT |-> None,
             GOOGLE_CLOUD_LOCATION |-> None, OPENAI_API_KEY |-> None,
             DEEPSEEK_API_KEY |-> None, OPENAI_MODEL |-> None]

NoConfig == [provider |-> None, apiKey |-> None, authType |-> None, baseURL |-> None,
             model |-> None, vertexai |-> None]

NoFactoryEnv == [GEMINI_PROVIDER |-> None, OPENAI_BASE_URL |-> None, OLLAMA_BASE_URL |-> None,
                 DEEPSEEK_API_BASE |-> None, OPENAI_API_MODEL |-> None,
                 DEEPSEEK_API_MODEL |-> None, OLLAMA_MODEL |-> None]

FactoryIdle ==
    /\ facPc = "idle"
    /\ revision = "part_002"
    /\ cgConfig = NoConfig
    /\ factoryEnv = NoFactoryEnv
    /\ constructed = <<>>
    /\ factoryError = ""
    /\ cli = None
    /\ keyEnv = NoKeyEnv

FactoryInit ==
    /\ facPc = "start"
    /\ revision \in {"part_001", "part_002"}
    /\ cgConfig \in ConfigSet
    /\ factoryEnv \in FactoryEnvSet
    /\ constructed = <<>>
    /\ factoryError = ""
    /\ cli = None
    /\ keyEnv = NoKeyEnv

\* The entry of createContentGeneratorConfig, whose result goes to createContentGenerator
PipelineInit ==
    /\ facPc = "config"
    /\ revision \in {"part_001", "part_002"}
    /\ cgConfig = NoConfig
    /\ factoryEnv \in FactoryEnvSet
    /\ constructed = <<>>
    /\ factoryError = ""
    /\ \E cliConfig \in CliConfigSet : cli = Some(cliConfig)
    /\ keyEnv \in KeyEnvSet

CreateContentGeneratorConfig ==
    /\ facPc = "config"
    /\ cgConfig' = createContentGeneratorConfig(revision, cli[1], keyEnv, factoryEnv)
    /\ facPc' = "start"
    /\ UNCHANGED <<revision, factoryEnv, constructed, factoryError, cli, keyEnv>>

CreateContentGenerator ==
    /\ facPc = "start"
    /\ LET r == createContentGenerator(revision, cgConfig, factoryEnv)
       IN  /\ facPc' = r.kind
           /\ constructed' = constructed \o r.generator
           /\ factoryError' = r.error
    /\ UNCHANGED <<revision, cgConfig, factoryEnv, cli, keyEnv>>

(***************************************************************************)
(* JavaScript values carried by function calls and function responses     *)
(***************************************************************************)
JsString(text) == [t |-> "string", s |-> text, n |-> 0, fields |-> <<>>]
JsNumber(num) == [t |-> "number", s |-> "", n |-> num, fields |-> <<>>]
JsNull == [t |-> "null", s |-> "", n |-> 0, fields |-> <<>>]
JsUndefined == [t |-> "undefined", s |-> "", n |-> 0, fields |-> <<>>]
\* An object: its own properties in insertion order
JsObject(fields) == [t |-> "object", s |-> "", n |-> 0, fields |-> fields]
Field(key, value) == [key |-> key, value |-> value]

\* 'key' in object
HasKey(object, key) == \E i \in 1..Len(object.fields) : object.fields[i].key = key

\* object[key]
GetKey(object, key) ==
    object.fields[CHOOSE i \in 1..Len(object.fields) : object.fields[i].key = key].value

DigitText == <<"0", "1", "2", "3", "4", "5", "6", "7", "8", "9">>

RECURSIVE NumberToString(_)
NumberToString(num) ==
    IF num < 10 THEN DigitText[num + 1]
    ELSE NumberToString(num \div 10) \o DigitText[(num % 10) + 1]

\* String(value)
String(value) ==
    CASE value.t = "string" -> value.s
      [] value.t = "number" -> NumberToString(value.n)
      [] value.t = "null" -> "null"
      [] value.t = "undefined" -> "undefined"
      [] OTHER -> "[object Object]"

RECURSIVE JSONStringifyText(_)
RECURSIVE JSONStringifyMembers(_, _)
\* The members of an object; a property whose value is undefined is left out
JSONStringifyMembers(fields, first) ==
    IF fields = <<>> THEN ""
    ELSE IF Head(fields).value.t = "undefined" THEN JSONStringifyMembers(Tail(fields), first)
    ELSE (IF first THEN "" ELSE ",")
         \o "\"" \o Head(fields).key \o "\":" \o JSONStringifyText(Head(fields).value)
         \o JSONStringifyMembers(Tail(fields), FALSE)

JSONStringifyText(value) ==
    CASE value.t = "string" -> "\"" \o value.s \o "\""
      [] value.t = "number" -> NumberToString(value.n)
      [] value.t = "null" -> "null"
      [] OTHER -> "{" \o JSONStringifyMembers(value.fields, TRUE) \o "}"

\* JSON.stringify(value): undefined for undefined, else the JSON text
JSONStringify(value) ==
    IF value.t = "undefined" THEN None ELSE Some(JSONStringifyText(value))

(***************************************************************************)
(* toMessages: conversation contents to chat messages                     *)
(***************************************************************************)
Part(text, functionCall, functionResponse) ==
    [text |-> text, functionCall |-> functionCall, functionResponse |-> functionResponse]

TextOnlyPart(text) == Part(Some(text), None, None)

CallPart(name, args) ==
    Part(None, Some(JsObject(<<Field("name", JsString(name)), Field("args", args)>>)), None)

ResponsePart(id, response) == Part(None, None, Some([id |-> id, response |-> response]))

\* parts is None when the content has no parts array
Content(role, parts) == [role |-> role, parts |-> parts]

ChatMessage(role, content, toolCallId) ==
    [role |-> role, content |-> content, tool_call_id |-> toolCallId]

\* c.parts.find(p => p.functionResponse)
FindFunctionResponse(parts) ==
    LET hits == {i \in 1..Len(parts) : parts[i].functionResponse # None}
    IN  IF hits = {} THEN None
        ELSE Some(parts[CHOOSE i \in hits : \A j \in hits : i <= j].functionResponse[1])

\* c.parts.find(p => p.functionCall)
FindFunctionCall(parts) ==
    LET hits == {i \in 1..Len(parts) : parts[i].functionCall # None}
    IN  IF hits = {} THEN None
        ELSE Some(parts[CHOOSE i \in hits : \A j \in hits : i <= j].functionCall[1])

\* Variant: the 'content' field of an object payload is looked up before 'output'
ResponseContentPrefersContent(response) ==
    IF response.t = "string" THEN Some(response.s)
    ELSE IF response.t = "object"
    THEN IF HasKey(response, "content") THEN Some(String(GetKey(response, "content")))
         ELSE IF HasKey(response, "output") THEN Some(String(GetKey(response, "output")))
         ELSE JSONStringify(response)
    ELSE JSONStringify(response)

\* responseContent of a functionResponse payload
ResponseContent(response) ==
    IF response.t = "string" THEN Some(response.s)
    ELSE IF response.t = "object"
    THEN IF HasKey(response, "output") THEN Some(String(GetKey(response, "output")))
         ELSE IF HasKey(response, "content") THEN Some(String(GetKey(response, "content")))
         ELSE JSONStringify(response)
    ELSE JSONStringify(response)

\* c.parts.map(p => p.text || '').join('')
RECURSIVE JoinText(_)
JoinText(parts) ==
    IF parts = <<>> THEN ""
    ELSE OrEmptyText(Head(parts).text) \o JoinText(Tail(parts))

\* c.role === 'model' ? 'assistant' : c.role
MessageRole(role) == IF role = "model" THEN "assistant" ELSE role

\* The callback of contents.map
toMessage(c) ==
    IF c.parts = None THEN ChatMessage(MessageRole(c.role), Some(""), None)
    ELSE LET functionResponse == FindFunctionResponse(c.parts[1])
             functionCall == FindFunctionCall(c.parts[1])
         IN  IF functionResponse # None
             THEN ChatMessage("tool", ResponseContent(functionResponse[1].response),
                              Some(functionResponse[1].id))
             ELSE IF functionCall # None
             THEN ChatMessage(MessageRole(c.role), JSONStringify(functionCall[1]), None)
             ELSE ChatMessage(MessageRole(c.role), Some(JoinText(c.parts[1])), None)

\* Variant: contents without any part produce no message
toMessagesSkippingEmpty(contents) ==
    IF contents = None THEN <<>>
    ELSE SelectSeq([i \in 1..Len(contents[1]) |-> toMessage(contents[1][i])],
                   LAMBDA msg : msg.content # Some(""))

\* contents is None when request.contents is not an array
toMessages(contents) ==
    IF contents = None THEN <<>>
    ELSE [i \in 1..Len(contents[1]) |-> toMessage(contents[1][i])]

MaxContents == 2

ContentSet ==
    { Content("user", Some(<<TextOnlyPart("Hello")>>)),
      Content("model", Some(<<TextOnlyPart("Hi, "), TextOnlyPart("there")>>)),
      Content("system", Some(<<TextOnlyPart("a"), Part(None, None, None), TextOnlyPart("b")>>)),
      Content("user", Some(<<>>)),
      Content("model", None),
      Content("model", Some(<<TextOnlyPart("calling"),
                              CallPart("f", JsObject(<<Field("a", JsNumber(1))>>))>>)),
      Content("user", Some(<<ResponsePart("call_1", JsString("done"))>>)),
      Content("user", Some(<<ResponsePart("call_2",
                 JsObject(<<Field("content", JsString("c")),
                            Field("output", JsString("out"))>>))>>)),
      Content("user", Some(<<ResponsePart("call_3",
                 JsObject(<<Field("content", JsNumber(7))>>))>>)),
      Content("model", Some(<<TextOnlyPart("note"),
                              ResponsePart("call_4",
                                 JsObject(<<Field("result", JsString("ok")),
                                            Field("skipped", JsUndefined),
                                            Field("code", JsNumber(10))>>))>>)),
      Content("tool", Some(<<ResponsePart("call_5", JsNull)>>)),
      Content("user", Some(<<ResponsePart("call_6", JsNumber(5))>>)),
      Content("user", Some(<<ResponsePart("call_7",
                 JsObject(<<Field("output", JsObject(<<Field("x", JsNumber(1))>>))>>))>>)),
      Content("user", Some(<<ResponsePart("call_8", JsUndefined)>>)),
      Content("user", Some(<<ResponsePart("call_9", JsString("")),
                             ResponsePart("call_10", JsString("second"))>>)) }

RECURSIVE SeqsUpTo(_, _)
SeqsUpTo(S, n) ==
    IF n = 0 THEN {<<>>}
    ELSE LET shorter == SeqsUpTo(S, n - 1)
         IN  shorter \cup {Append(q, x) : q \in shorter, x \in S}

ContentsSet == {None} \cup {Some(q) : q \in SeqsUpTo(ContentSet, MaxContents)}

(***************************************************************************)
(* The outbound request of generateContent / generateContentStream        *)
(***************************************************************************)
SamplingKeys == {"temperature", "maxOutputTokens", "top_p", "top_k", "topP"}

SamplingValues == {0, 1}

\* request.config: undefined, or the sampling fields that are present
GenerateContentConfigSet ==
    {None} \cup {Some(f) : f \in UNION {[S -> SamplingValues] : S \in SUBSET SamplingKeys}}

Request(contents, config) == [contents |-> contents, config |-> config]

DefaultRequest == Request(Some(<<Content("user", Some(<<TextOnlyPart("Hello")>>))>>), None)

\* The source field read for an outbound parameter
SourceField(param) == IF param = "max_tokens" THEN "maxOutputTokens" ELSE param

\* Variant: temperature is sent with a default when the request has none
ForwardedParamsDefaultTemperature(config) ==
    LET present == {param \in {"temperature", "max_tokens", "top_p"} :
                      config # None /\ SourceField(param) \in DOMAIN config[1]}
    IN  [param \in present \cup {"temperature"} |->
            IF param \in present THEN config[1][SourceField(param)] ELSE 1]

\* if (config?.x !== undefined) requestConfig.y = config.x, three times
ForwardedParams(config) ==
    LET present == {param \in {"temperature", "max_tokens", "top_p"} :
                      config # None /\ SourceField(param) \in DOMAIN config[1]}
    IN  [param \in present |-> config[1][SourceField(param)]]

RequestConfig(adapterConfig, req, stream) ==
    [model |-> adapterConfig.model,
     messages |-> toMessages(req.contents),
     stream |-> stream,
     params |-> ForwardedParams(req.config)]

(***************************************************************************)
(* Failures of the provider call                                          *)
(***************************************************************************)
AdapterProviders == {"openai", "deepseek", "ollama", "local"}

ProviderErrors == {"connect ECONNREFUSED"}

\* Errors raised by the provider stream after it was opened
StreamErrors == {"socket hang up"}

\* The catch block of generateContent: `...provider error: ${error.message}` or the error itself
CatchGenerateContent(providerName, outcome) ==
    IF outcome.kind # "threw" THEN outcome
    ELSE IF providerName = "local" THEN Threw(<<"Local provider error: ">> \o outcome.error)
    ELSE IF providerName = "ollama" THEN Threw(<<"Ollama provider error: ">> \o outcome.error)
    ELSE outcome

(***************************************************************************)
(* State of concurrent generateContentStream calls on one adapter         *)
(***************************************************************************)
VARIABLES
    calls,      \* per call: position of its gen(), its loop variable and its histories
    closures,   \* per closure: toolCallsBuffer, accumulatedText and hasToolCalls
    arrival     \* history: the calls in the order in which their chunks arrived

concurrentVars == <<calls, closures, arrival>>

ConcurrentIdle ==
    /\ calls = <<>>
    /\ closures = <<>>
    /\ arrival = <<>>

(***************************************************************************)
(* State of one adapter call                                               *)
(***************************************************************************)
VARIABLES
    pc,               \* "start", "next" (awaiting a chunk), "yield", "end", "returned", "threw"
    toolCallsBuffer,  \* the fragments, in order of first arrival
    accumulatedText,
    hasToolCalls,
    chunk,            \* the loop variable of the for-await loop
    consumed,         \* history: the chunks taken from the provider stream so far
    emitted,          \* history: the responses yielded so far
    emittedAt,        \* history: for each response, the number of chunks consumed at its yield
    completion,       \* the provider reply of generateContent
    result,           \* outcome of the call: the response returned or the error thrown
    adapterConfig,    \* this.config: provider and model
    request,          \* the request of the call: contents and config
    requestConfig,    \* the argument of openai.chat.completions.create
    createCalls,      \* history: the number of calls of openai.chat.completions.create
    providerError     \* history: the error raised by the provider, if any

adapterVars == <<pc, toolCallsBuffer, accumulatedText, hasToolCalls, chunk, consumed,
                 emitted, emittedAt, completion, result, adapterConfig, request,
                 requestConfig, createCalls, providerError>>

NoResult == [kind |-> "none",
             response |-> [parts |-> <<>>, finishReason |-> None, text |-> "",
                           functionCalls |-> None],
             error |-> <<>>]

AdapterConfig(providerName) == [provider |-> providerName, model |-> "m"]

\* No provider call made yet
NoCall ==
    /\ completion = None
    /\ result = NoResult
    /\ requestConfig = None
    /\ createCalls = 0
    /\ providerError = None

AdapterInit ==
    /\ pc = "start"
    /\ adapterConfig = AdapterConfig("openai")
    /\ request = DefaultRequest
    /\ NoCall
    /\ toolCallsBuffer = <<>>
    /\ accumulatedText = ""
    /\ hasToolCalls = FALSE
    /\ chunk = None
    /\ consumed = <<>>
    /\ emitted = <<>>
    /\ emittedAt = <<>>

StreamState == [toolCallsBuffer |-> toolCallsBuffer, accumulatedText |-> accumulatedText,
                hasToolCalls |-> hasToolCalls]

\* generateContent(request): the request is built, the provider replies or fails, and the
\* response is assembled
GenerateContent ==
    /\ pc = "start"
    /\ requestConfig' = Some(RequestConfig(adapterConfig, request, FALSE))
    /\ createCalls' = createCalls + 1
    /\ \/ \E reply \in ReplySet :
            /\ completion' = Some(reply)
            /\ providerError' = None
            /\ result' = CatchGenerateContent(adapterConfig.provider, AssembleReply(reply))
       \/ \E failure \in ProviderErrors :
            /\ completion' = None
            /\ providerError' = Some(failure)
            /\ result' = CatchGenerateContent(adapterConfig.provider, Threw(<<failure>>))
    /\ pc' = result'.kind
    /\ UNCHANGED <<toolCallsBuffer, accumulatedText, hasToolCalls, chunk, consumed, emitted,
                   emittedAt, adapterConfig, request>>
    /\ UNCHANGED <<authVars, factoryVars, concurrentVars>>

\* generateContentStream(request): the request is built and the stream is opened; gen() is
\* returned, or the failure of the provider call leaves the method as it is
GenerateContentStream ==
    /\ pc = "start"
    /\ requestConfig' = Some(RequestConfig(adapterConfig, request, TRUE))
    /\ createCalls' = createCalls + 1
    /\ \/ /\ pc' = "next"
          /\ UNCHANGED <<result, providerError>>
       \/ \E failure \in ProviderErrors :
            /\ providerError' = Some(failure)
            /\ result' = Threw(<<failure>>)
            /\ pc' = "threw"
    /\ UNCHANGED <<toolCallsBuffer, accumulatedText, hasToolCalls, chunk, consumed, emitted,
                   emittedAt, completion, adapterConfig, request>>
    /\ UNCHANGED <<authVars, factoryVars, concurrentVars>>

\* The provider stream fails while gen() awaits a chunk: the catch block of gen() throws
\* the error again
StreamFails ==
    /\ pc = "next"
    /\ \E failure \in StreamErrors :
         /\ providerError' = Some(failure)
         /\ result' = Threw(<<failure>>)
    /\ pc' = "threw"
    /\ UNCHANGED <<toolCallsBuffer, accumulatedText, hasToolCalls, chunk, consumed, emitted,
                   emittedAt, completion, adapterConfig, request, requestConfig, createCalls>>
    /\ UNCHANGED <<authVars, factoryVars, concurrentVars>>

\* The consumer pulls, the provider delivers a chunk, the loop body runs to the yield
NextChunk ==
    /\ pc = "next"
    /\ Len(consumed) < MaxChunks
    /\ \E c \in ChunkSet :
         LET step == ProcessChunk(StreamState, c)
         IN  /\ chunk' = Some(c)
             /\ consumed' = Append(consumed, c)
             /\ toolCallsBuffer' = step.toolCallsBuffer
             /\ accumulatedText' = step.accumulatedText
             /\ hasToolCalls' = step.hasToolCalls
             /\ emitted' = IF step.yields THEN Append(emitted, step.response) ELSE emitted
             /\ emittedAt' = IF step.yields THEN Append(emittedAt, Len(consumed) + 1)
                             ELSE emittedAt
             /\ pc' = IF step.yields THEN "yield" ELSE "next"
    /\ UNCHANGED <<completion, result>>
    /\ UNCHANGED <<adapterConfig, request, requestConfig, createCalls, providerError>>
    /\ UNCHANGED <<authVars, factoryVars, concurrentVars>>

\* The consumer pulls again after a yield: the reset statements run
Resume ==
    /\ pc = "yield"
    /\ LET st == ResetAfterYield(StreamState, IsDone(chunk[1]))
       IN  /\ toolCallsBuffer' = st.toolCallsBuffer
           /\ accumulatedText' = st.accumulatedText
           /\ hasToolCalls' = st.hasToolCalls
    /\ pc' = "next"
    /\ UNCHANGED <<chunk, consumed, emitted, emittedAt, completion, result>>
    /\ UNCHANGED <<adapterConfig, request, requestConfig, createCalls, providerError>>
    /\ UNCHANGED <<authVars, factoryVars, concurrentVars>>

\* The provider stream is exhausted: the for-await loop and the generator end
StreamEnd ==
    /\ pc = "next"
    /\ pc' = "end"
    /\ UNCHANGED <<toolCallsBuffer, accumulatedText, hasToolCalls, chunk, consumed, emitted,
                   emittedAt, completion, result>>
    /\ UNCHANGED <<adapterConfig, request, requestConfig, createCalls, providerError>>
    /\ UNCHANGED <<authVars, factoryVars, concurrentVars>>

AdapterIdle ==
    /\ pc = "idle"
    /\ toolCallsBuffer = <<>>
    /\ accumulatedText = ""
    /\ hasToolCalls = FALSE
    /\ chunk = None
    /\ consumed = <<>>
    /\ emitted = <<>>
    /\ emittedAt = <<>>
    /\ adapterConfig = AdapterConfig("openai")
    /\ request = DefaultRequest
    /\ NoCall

vars == <<adapterVars, authVars, factoryVars, concurrentVars>>

(***************************************************************************)
(* Spec: one call of the adapter, generateContent or generateContentStream *)
(***************************************************************************)
Init == AdapterInit /\ AuthIdle /\ FactoryIdle /\ ConcurrentIdle

Next ==
    \/ GenerateContent
    \/ GenerateContentStream
    \/ NextChunk
    \/ Resume
    \/ StreamEnd

Spec == Init /\ [][Next]_vars

(***************************************************************************)
(* SpecAuth: one run of validateNonInteractiveAuth                         *)
(***************************************************************************)
InitAuth == AdapterIdle /\ AuthInit /\ FactoryIdle /\ ConcurrentIdle

AuthStep ==
    \/ ResolveAuth
    \/ ExitUnresolved
    \/ ValidateAuth
    \/ RefreshAuth

NextAuth == AuthStep /\ UNCHANGED <<adapterVars, factoryVars, concurrentVars>>

SpecAuth == InitAuth /\ [][NextAuth]_vars

(***************************************************************************)
(* SpecFactory: one call of createContentGenerator                         *)
(***************************************************************************)
InitFactory == AdapterIdle /\ AuthIdle /\ FactoryInit /\ ConcurrentIdle

NextFactory == CreateContentGenerator /\ UNCHANGED <<adapterVars, authVars, concurrentVars>>

SpecFactory == InitFactory /\ [][NextFactory]_vars

(***************************************************************************)
(* SpecPipeline: createContentGeneratorConfig, then createContentGenerator *)
(* on its result                                                           *)
(***************************************************************************)
InitPipeline == AdapterIdle /\ AuthIdle /\ PipelineInit /\ ConcurrentIdle

NextPipeline ==
    /\ \/ CreateContentGeneratorConfig
       \/ CreateContentGenerator
    /\ UNCHANGED <<adapterVars, authVars, concurrentVars>>

SpecPipeline == InitPipeline /\ [][NextPipeline]_vars

(***************************************************************************)
(* SpecTranslate: one call of the adapter, for every conversation         *)
(***************************************************************************)
\* The call as it stands at the entry of either method
CallInit ==
    /\ pc = "start"
    /\ toolCallsBuffer = <<>>
    /\ accumulatedText = ""
    /\ hasToolCalls = FALSE
    /\ chunk = None
    /\ consumed = <<>>
    /\ emitted = <<>>
    /\ emittedAt = <<>>
    /\ NoCall

InitTranslate ==
    /\ CallInit
    /\ adapterConfig = AdapterConfig("openai")
    /\ \E contents \in ContentsSet : request = Request(contents, None)
    /\ AuthIdle
    /\ FactoryIdle
    /\ ConcurrentIdle

NextTranslate ==
    \/ GenerateContent
    \/ GenerateContentStream

SpecTranslate == InitTranslate /\ [][NextTranslate]_vars

(***************************************************************************)
(* SpecCall: one call of the adapter, for every provider and every        *)
(* sampling configuration, up to the first chunk                          *)
(***************************************************************************)
InitCall ==
    /\ CallInit
    /\ \E providerName \in AdapterProviders : adapterConfig = AdapterConfig(providerName)
    /\ \E config \in GenerateContentConfigSet : request = Request(DefaultRequest.contents, config)
    /\ AuthIdle
    /\ FactoryIdle
    /\ ConcurrentIdle

NextCall ==
    \/ GenerateContent
    \/ GenerateContentStream
    \/ StreamFails

SpecCall == InitCall /\ [][NextCall]_vars

(***************************************************************************)
(* SpecConcurrent: two generateContentStream calls on the same adapter,   *)
(* their chunks arriving in any interleaving                              *)
(***************************************************************************)
MaxConcurrentChunks == 2

Calls == {1, 2}

ConcurrentChunkSet ==
    { Chunk(Some(<<ToolCallDelta(1, Some("call_1"), Some("g"), Some(<<"{", "b:", "2", "}">>))>>),
            None, None),
      Chunk(None, Some(ShortText), None),
      Chunk(None, Some(LongText), None),
      Chunk(None, None, Some("stop")) }

\* const toolCallsBuffer = []; let accumulatedText = ''; let hasToolCalls = false
NewClosure == [toolCallsBuffer |-> <<>>, accumulatedText |-> "", hasToolCalls |-> FALSE]

NewCall == [pc |-> "start", chunk |-> None, consumed |-> <<>>, emitted |-> <<>>]

\* Variant: the three variables are fields of the adapter, shared by its calls
ClosureOfAdapter(call) == 1

\* The closure to which the gen() of a call is bound: the one its own call created
ClosureOf(call) == call

InitConcurrent ==
    /\ AdapterIdle
    /\ AuthIdle
    /\ FactoryIdle
    /\ calls = [call \in Calls |-> NewCall]
    /\ closures = [k \in Calls |-> NewClosure]
    /\ arrival = <<>>

\* generateContentStream(request) of one call: its variables are created, gen() is returned
OpenStream(call) ==
    /\ calls[call].pc = "start"
    /\ closures' = [closures EXCEPT ![ClosureOf(call)] = NewClosure]
    /\ calls' = [calls EXCEPT ![call].pc = "next"]
    /\ UNCHANGED arrival

\* A chunk of one call arrives and its loop body runs to the yield
CallNextChunk(call) ==
    /\ calls[call].pc = "next"
    /\ Len(calls[call].consumed) < MaxConcurrentChunks
    /\ \E c \in ConcurrentChunkSet :
         LET step == ProcessChunk(closures[ClosureOf(call)], c)
         IN  /\ closures' = [closures EXCEPT ![ClosureOf(call)] =
                                [toolCallsBuffer |-> step.toolCallsBuffer,
                                 accumulatedText |-> step.accumulatedText,
                                 hasToolCalls |-> step.hasToolCalls]]
             /\ calls' = [calls EXCEPT ![call] =
                             [pc |-> IF step.yields THEN "yield" ELSE "next",
                              chunk |-> Some(c),
                              consumed |-> Append(@.consumed, c),
                              emitted |-> IF step.yields THEN Append(@.emitted, step.response)
                                          ELSE @.emitted]]
    /\ arrival' = Append(arrival, call)

\* The consumer of one call pulls again after a yield
CallResume(call) ==
    /\ calls[call].pc = "yield"
    /\ closures' = [closures EXCEPT ![ClosureOf(call)] =
                       ResetAfterYield(@, IsDone(calls[call].chunk[1]))]
    /\ calls' = [calls EXCEPT ![call].pc = "next"]
    /\ UNCHANGED arrival

\* The provider stream of one call is exhausted
CallStreamEnd(call) ==
    /\ calls[call].pc = "next"
    /\ calls' = [calls EXCEPT ![call].pc = "end"]
    /\ UNCHANGED <<closures, arrival>>

NextConcurrent ==
    /\ \E call \in Calls :
         \/ OpenStream(call)
         \/ CallNextChunk(call)
         \/ CallResume(call)
         \/ CallStreamEnd(call)
    /\ UNCHANGED <<adapterVars, authVars, factoryVars>>

SpecConcurrent == InitConcurrent /\ [][NextConcurrent]_vars

TypeOK ==
    /\ pc \in {"idle", "start", "next", "yield", "end", "returned", "threw"}
    /\ hasToolCalls \in BOOLEAN
    /\ Len(consumed) <= MaxChunks

(***************************************************************************)
(* Reading the histories                                                   *)
(***************************************************************************)
Last(s) == s[Len(s)]

\* The first chunk after the last completion that precedes chunk n
SegmentStart(n) ==
    IF \E j \in 1..(n - 1) : IsDone(consumed[j])
    THEN 1 + CHOOSE j \in 1..(n - 1) :
                 IsDone(consumed[j]) /\ \A k \in (j + 1)..(n - 1) : ~IsDone(consumed[k])
    ELSE 1

\* The chunks since the last completion, the current chunk included
Segment == SubSeq(consumed, SegmentStart(Len(consumed)), Len(consumed))

RECURSIVE DeltasIn(_)
DeltasIn(chunks) ==
    IF chunks = <<>> THEN <<>>
    ELSE (IF ChunkToolCalls(Head(chunks)) = None THEN <<>>
          ELSE ChunkToolCalls(Head(chunks))[1]) \o DeltasIn(Tail(chunks))

RECURSIVE ConcatArgs(_, _)
ConcatArgs(deltas, i) ==
    IF deltas = <<>> THEN <<>>
    ELSE (IF Head(deltas).index = i /\ Head(deltas).arguments # None
          THEN Head(deltas).arguments[1] ELSE <<>>) \o ConcatArgs(Tail(deltas), i)

IndexesOf(deltas) == {deltas[k].index : k \in 1..Len(deltas)}

ToolDeltaSeen == \E k \in 1..Len(Segment) : ChunkToolCalls(Segment[k]) # None

AtCompletionFlush == pc = "yield" /\ IsDone(chunk[1])
AtInterimFlush == pc = "yield" /\ ~IsDone(chunk[1])

CompletionEmitted ==
    \E k \in 1..Len(emitted) : emitted[k].finishReason \in {Some("stop"), Some("tool_calls")}

ExampleStream ==
    << Chunk(Some(<<ToolCallDelta(0, Some("call_0"), Some("f"), Some(ArgsA1))>>), None, None),
       Chunk(Some(<<ToolCallDelta(0, None, None, Some(ArgsA2))>>), None, None),
       Chunk(Some(<<ToolCallDelta(0, None, None, Some(ArgsA3))>>), None, None),
       Chunk(None, None, Some("tool_calls")) >>

(***************************************************************************)
(* C1: tool-call deltas are merged by index, not by arrival order: at a   *)
(* completion flush there is one fragment per index seen since the last   *)
(* completion, and its arguments text is the concatenation, in arrival    *)
(* order, of the arguments of exactly the deltas that carry its index.    *)
(* The stream '{"a":', '1,"b":', '2}', finish 'tool_calls' emits exactly  *)
(* one response, with functionCalls[0].args = {a: 1, b: 2}.               *)
(***************************************************************************)
MergeByIndex ==
    /\ AtCompletionFlush =>
         LET deltas == DeltasIn(Segment)
         IN  /\ {toolCallsBuffer[k].index : k \in 1..Len(toolCallsBuffer)} = IndexesOf(deltas)
             /\ Len(toolCallsBuffer) = Cardinality(IndexesOf(deltas))
             /\ \A k \in 1..Len(toolCallsBuffer) :
                  toolCallsBuffer[k].function.arguments
                     = ConcatArgs(deltas, toolCallsBuffer[k].index)
             /\ IF deltas = <<>> THEN Last(emitted).functionCalls = None
                ELSE /\ Last(emitted).functionCalls # None
                     /\ Len(Last(emitted).functionCalls[1]) = Len(toolCallsBuffer)
    /\ (pc = "yield" /\ consumed = ExampleStream) =>
         /\ Len(emitted) = 1
         /\ emitted[1].functionCalls[1][1].args = JsonObject([a |-> 1, b |-> 2])
    /\ (consumed = ExampleStream) => pc \in {"yield", "next", "end"} /\ Len(emitted) = 1

\* Two indexes interleaved: index 0 gets two deltas with an index-1 delta between them
MergeByIndexWitness ==
    /\ AtCompletionFlush
    /\ Len(toolCallsBuffer) = 2
    /\ \E k \in 1..2 : /\ toolCallsBuffer[k].index = 0
                       /\ toolCallsBuffer[k].function.arguments = ArgsA1 \o ArgsA2
    /\ DeltasIn(Segment)[2].index = 1

ResetSemantics ==
    [][ (pc = "yield" /\ pc' # "yield") =>
          /\ accumulatedText' = ""
          /\ IF IsDone(chunk[1])
             THEN toolCallsBuffer' = <<>> /\ hasToolCalls' = FALSE
             ELSE toolCallsBuffer' = toolCallsBuffer /\ hasToolCalls' = hasToolCalls ]_vars

\* Resumed after a completion flush that reported a tool call
ResetSemanticsWitness ==
    /\ pc = "next"
    /\ consumed # <<>>
    /\ IsDone(Last(consumed))
    /\ Last(emitted).functionCalls # None
    /\ Last(emitted).text # ""
    /\ toolCallsBuffer = <<>>
    /\ accumulatedText = ""

RECURSIVE TextIn(_)
TextIn(chunks) ==
    IF chunks = <<>> THEN ""
    ELSE OrEmptyText(ChunkContent(Head(chunks))) \o TextIn(Tail(chunks))

LastEmissionAt == IF emittedAt = <<>> THEN 0 ELSE Last(emittedAt)

\* The chunks that arrived after the last completion chunk
AfterLastDone == SubSeq(consumed, SegmentStart(Len(consumed) + 1), Len(consumed))

\* An interim emission happened since the last completion, before the current chunk
InterimInSegment(p) ==
    /\ p \in 1..(Len(emittedAt) - 1)
    /\ emittedAt[p] >= SegmentStart(Len(consumed))

\* What an emission reports for an arguments text: its JSON value, or {} when it has none
ExpectedArgs(text) ==
    IF text = <<>> THEN EmptyArgs
    ELSE IF JSONParse(text).ok THEN JSONParse(text).value ELSE EmptyArgs

FragmentsAreMergeOf(deltas) ==
    /\ {toolCallsBuffer[k].index : k \in 1..Len(toolCallsBuffer)} = IndexesOf(deltas)
    /\ \A k \in 1..Len(toolCallsBuffer) :
         /\ toolCallsBuffer[k].function.arguments = ConcatArgs(deltas, toolCallsBuffer[k].index)
         /\ Last(emitted).functionCalls[1][k].args
              = ExpectedArgs(ConcatArgs(deltas, toolCallsBuffer[k].index))

(***************************************************************************)
(* C4 as claimed: text that reaches the threshold mid-stream is emitted   *)
(* by an interim flush also when tool-call deltas arrived before it, and  *)
(* the completion flush still reports the merge of the deltas received    *)
(* before and after that flush.  The interim flush of the scenario never  *)
(* happens: with a fragment pending the text is held.                     *)
(***************************************************************************)
InterimFlushKeepsToolCalls ==
    /\ (pc = "next" /\ toolCallsBuffer # <<>>) => Len(accumulatedText) < 10
    /\ AtCompletionFlush => FragmentsAreMergeOf(DeltasIn(Segment))

(***************************************************************************)
(* C4 amended: an interim flush cannot lose tool-call state because it    *)
(* happens only when no tool-call delta arrived since the last            *)
(* completion: at an interim flush the fragment set is empty, the flag is *)
(* off and the response has no functionCalls; at the completion flush     *)
(* that follows an interim flush every delta of the turn arrived after    *)
(* the interim flush and the functionCalls are the merge of all of them.  *)
(***************************************************************************)
InterimFlushOnlyWithoutToolCalls ==
    /\ AtInterimFlush =>
         /\ toolCallsBuffer = <<>>
         /\ hasToolCalls = FALSE
         /\ Last(emitted).functionCalls = None
         /\ DeltasIn(Segment) = <<>>
    /\ AtCompletionFlush =>
         \A p \in 1..Len(emittedAt) :
            InterimInSegment(p) =>
               /\ DeltasIn(SubSeq(consumed, SegmentStart(Len(consumed)), emittedAt[p])) = <<>>
               /\ FragmentsAreMergeOf(
                     DeltasIn(SubSeq(consumed, emittedAt[p] + 1, Len(consumed))))

\* Text flushed first, then a tool call split over two deltas, then completion
InterimFlushWitness ==
    /\ AtCompletionFlush
    /\ \E p \in 1..Len(emittedAt) : InterimInSegment(p)
    /\ Len(DeltasIn(Segment)) = 2
    /\ Len(toolCallsBuffer) = 1
    /\ toolCallsBuffer[1].function.arguments = ArgsA1 \o ArgsA3
    /\ Last(emitted).functionCalls[1][1].args = JsonObject([a |-> 2])

(***************************************************************************)
(* C5 as claimed: DONE is terminal, once a completion-triggered response  *)
(* has been emitted no later chunk causes a further emission.             *)
(***************************************************************************)
DoneIsTerminal ==
    [][ CompletionEmitted => emitted' = emitted ]_vars

(***************************************************************************)
(* C5 amended: completion is not terminal.  After a completion-triggered  *)
(* emission the generator goes back to accumulating from reset state: it  *)
(* holds exactly the text and the fragments of the chunks that arrived    *)
(* after the completion, and it takes the next chunk of the stream.       *)
(***************************************************************************)
CompletionResumesAccumulation ==
    (CompletionEmitted /\ pc = "next") =>
       /\ accumulatedText = TextIn(SubSeq(consumed, LastEmissionAt + 1, Len(consumed)))
       /\ {toolCallsBuffer[k].index : k \in 1..Len(toolCallsBuffer)}
             = IndexesOf(DeltasIn(AfterLastDone))
       /\ \A k \in 1..Len(toolCallsBuffer) :
            toolCallsBuffer[k].function.arguments
               = ConcatArgs(DeltasIn(AfterLastDone), toolCallsBuffer[k].index)
       /\ hasToolCalls = (\E k \in 1..Len(AfterLastDone) :
                             ChunkToolCalls(AfterLastDone[k]) # None)
       /\ (Len(consumed) < MaxChunks => ENABLED NextChunk)

\* A response emitted after a completion-triggered one, from chunks that came later
CompletionResumesWitness ==
    /\ pc = "yield"
    /\ Len(emitted) = 2
    /\ emitted[1].finishReason = Some("tool_calls")
    /\ emitted[1].functionCalls # None
    /\ emitted[2].finishReason = None
    /\ emitted[2].text = LongText
    /\ emitted[2].functionCalls = None

(***************************************************************************)
(* C6: a tool call whose arguments text is not valid JSON at emission     *)
(* time is reported with empty arguments and nothing is aborted: the      *)
(* response is emitted, the other tool calls keep their parsed arguments  *)
(* and the generator takes the next chunk.  The same holds for each tool  *)
(* call of a non-streaming reply.                                         *)
(***************************************************************************)
ParseFailureDegrades ==
    /\ pc = "yield" =>
         /\ \A k \in 1..Len(toolCallsBuffer) :
              Last(emitted).functionCalls[1][k].args
                 = ExpectedArgs(toolCallsBuffer[k].function.arguments)
         /\ ENABLED Resume
    /\ (pc \in {"returned", "threw"} /\ completion # None
           /\ completion[1].choices[1].message # None) =>
         LET toolCalls == completion[1].choices[1].message[1].tool_calls
         IN  /\ pc = "returned"
             /\ toolCalls # None =>
                  /\ Len(result.response.functionCalls[1]) = Len(toolCalls[1])
                  /\ \A k \in 1..Len(toolCalls[1]) :
                       result.response.functionCalls[1][k].args
                          = ExpectedArgs(OrEmptyArgs(toolCalls[1][k].arguments))
    /\ JSONParse(ArgsA1).ok = FALSE
    /\ JSONParse(ArgsA1 \o ArgsA2 \o ArgsA3) = ParseOk(JsonObject([a |-> 1, b |-> 2]))

\* One emission with a truncated call (empty arguments) next to a parsed one
ParseFailureWitness ==
    /\ pc = "yield"
    /\ Len(toolCallsBuffer) = 2
    /\ toolCallsBuffer[1].function.arguments = ArgsA1
    /\ Last(emitted).functionCalls[1][1].args = EmptyArgs
    /\ Last(emitted).functionCalls[1][2].args = JsonObject([b |-> 2])

(***************************************************************************)
(* C7: an explicit provider overrides the environment.  For provider      *)
(* 'openai', 'deepseek' and 'ollama' the resolved auth type is USE_OPENAI *)
(* whatever the configured auth type and the environment, it is the type  *)
(* handed to validateAuthMethod and refreshAuth, the dialog gives the     *)
(* three the same value, and getAuthTypeFromEnv is not called when a      *)
(* provider other than 'gemini' is set.                                   *)
(***************************************************************************)
OpenAICompatible == {Some("openai"), Some("deepseek"), Some("ollama")}

NonEmpty(v) == v # None /\ v # Some("")

RequestedProvider ==
    IF NonEmpty(cgConfig.provider) THEN cgConfig.provider[1]
    ELSE IF NonEmpty(factoryEnv.GEMINI_PROVIDER) THEN factoryEnv.GEMINI_PROVIDER[1]
    ELSE "gemini"

MissingCredentialFails ==
    /\ (facPc \notin {"idle", "start"} /\ RequestedProvider \in {"openai", "deepseek"}
          /\ ~NonEmpty(cgConfig.apiKey)) =>
         /\ facPc = "threw"
         /\ constructed = <<>>
         /\ factoryError = (IF RequestedProvider = "openai" THEN "OpenAI API key is required"
                            ELSE "DeepSeek API key is required")
    /\ \A k \in 1..Len(constructed) :
         constructed[k].provider \in {Some("openai"), Some("deepseek")} =>
            NonEmpty(constructed[k].apiKey)
    /\ facPc = "threw" => constructed = <<>>

\* {provider: "deepseek", apiKey: ""} has thrown
MissingCredentialWitness ==
    /\ facPc = "threw"
    /\ cgConfig.provider = Some("deepseek")
    /\ cgConfig.apiKey = Some("")
    /\ cgConfig.authType = Some(USE_OPENAI)
    /\ factoryError = "DeepSeek API key is required"
    /\ constructed = <<>>

(***************************************************************************)
(* C11: for provider 'ollama' createContentGenerator succeeds without an  *)
(* API key, passes the empty key, and hands the generator the configured  *)
(* base URL with '/v1' appended if absent: unchanged when it already ends *)
(* with '/v1', so that the result ends with exactly one '/v1'.            *)
(* The factory appends '/v1' unconditionally.                             *)
(***************************************************************************)
ConfiguredOllamaBase ==
    IF cgConfig.baseURL # None /\ cgConfig.baseURL[1] # <<>> THEN cgConfig.baseURL[1]
    ELSE IF factoryEnv.OLLAMA_BASE_URL # None /\ factoryEnv.OLLAMA_BASE_URL[1] # <<>>
         THEN factoryEnv.OLLAMA_BASE_URL[1]
    ELSE <<"http://localhost:11434">>

EndsWithV1(url) == Len(url) > 0 /\ url[Len(url)] = "/v1"

OllamaBaseUrlSuffix ==
    (facPc \notin {"idle", "start"} /\ RequestedProvider = "ollama") =>
       /\ facPc = "built"
       /\ Len(constructed) = 1
       /\ constructed[1].apiKey = Some("")
       /\ constructed[1].baseURL =
             Some(IF EndsWithV1(ConfiguredOllamaBase) THEN ConfiguredOllamaBase
                  ELSE ConfiguredOllamaBase \o <<"/v1">>)
       /\ EndsWithV1(constructed[1].baseURL[1])
       /\ ~EndsWithV1(SubSeq(constructed[1].baseURL[1], 1, Len(constructed[1].baseURL[1]) - 1))

(***************************************************************************)
(* C12 as claimed: for every provider string other than gemini, openai,   *)
(* deepseek and ollama createContentGenerator fails with the              *)
(* unsupported-provider error and constructs no generator, whatever the   *)
(* auth type of the config.                                               *)
(***************************************************************************)
RegisteredProviders == {"gemini", "openai", "deepseek", "ollama"}

UnsupportedErrors == {"Unsupported provider", "Unsupported authType or provider"}

UnsupportedProviderFails ==
    (facPc \notin {"idle", "start"} /\ RequestedProvider \notin RegisteredProviders) =>
       /\ facPc = "threw"
       /\ factoryError \in UnsupportedErrors
       /\ constructed = <<>>

(***************************************************************************)
(* C12 amended: createContentGenerator fails with the unsupported error,  *)
(* constructing no generator, exactly when the provider/auth pair matches *)
(* no branch.  In the provider-only revision (part_001) that is every     *)
(* provider other than gemini, openai, deepseek and ollama, whatever the  *)
(* auth type; in the revision that falls back on the auth type (part_002) *)
(* that is a provider other than openai, deepseek and ollama together     *)
(* with no auth type: there a known auth type serves an unknown provider. *)
(***************************************************************************)
NoBranchMatches ==
    IF revision = "part_001" THEN RequestedProvider \notin RegisteredProviders
    ELSE RequestedProvider \notin {"openai", "deepseek", "ollama"} /\ cgConfig.authType = None

UnsupportedPairFails ==
    facPc \notin {"idle", "start"} =>
       /\ NoBranchMatches <=> (facPc = "threw" /\ factoryError \in UnsupportedErrors)
       /\ NoBranchMatches => constructed = <<>>

\* Provider 'foo' with a usable OpenAI configuration is refused by the provider-only revision
UnsupportedPairWitness ==
    /\ facPc = "threw"
    /\ revision = "part_001"
    /\ cgConfig.provider = Some("foo")
    /\ cgConfig.authType = Some(USE_OPENAI)
    /\ cgConfig.apiKey = Some("key")
    /\ factoryError = "Unsupported provider"
    /\ constructed = <<>>

(***************************************************************************)
(* Reading the outbound request                                            *)
(***************************************************************************)
\* The request has been built from an array of contents
Translated == requestConfig # None /\ request.contents # None

SourceContents == request.contents[1]

OutboundMessages == requestConfig[1].messages

\* The positions of the parts of a content that carry a functionResponse
ResponsePositions(c) ==
    IF c.parts = None THEN {}
    ELSE {k \in 1..Len(c.parts[1]) : c.parts[1][k].functionResponse # None}

\* The first functionResponse of a content that has one
FirstResponse(c) ==
    c.parts[1][CHOOSE k \in ResponsePositions(c) :
                  \A j \in ResponsePositions(c) : k <= j].functionResponse[1]

(***************************************************************************)
(* C13: toMessages maps every content that has a functionResponse part to *)
(* a message with role 'tool' and tool_call_id equal to the response id,  *)
(* whatever the role and the other parts.  Its content is the payload     *)
(* itself for a string payload, the stringified 'output' field when an    *)
(* object payload has one, otherwise the stringified 'content' field when *)
(* it has one, otherwise the whole payload serialized as JSON.            *)
(***************************************************************************)
FunctionResponseMapping ==
    /\ Translated =>
         /\ Len(OutboundMessages) = Len(SourceContents)
         /\ \A i \in 1..Len(SourceContents) :
              ResponsePositions(SourceContents[i]) # {} =>
                 LET payload == FirstResponse(SourceContents[i]).response
                     msg == OutboundMessages[i]
                 IN  /\ msg.role = "tool"
                     /\ msg.tool_call_id = Some(FirstResponse(SourceContents[i]).id)
                     /\ payload.t = "string" => msg.content = Some(payload.s)
                     /\ (payload.t = "object" /\ HasKey(payload, "output")) =>
                           msg.content = Some(String(GetKey(payload, "output")))
                     /\ (payload.t = "object" /\ ~HasKey(payload, "output")
                           /\ HasKey(payload, "content")) =>
                           msg.content = Some(String(GetKey(payload, "content")))
                     /\ (payload.t \notin {"string", "object"}
                           \/ (payload.t = "object" /\ ~HasKey(payload, "output")
                                 /\ ~HasKey(payload, "content"))) =>
                           msg.content = JSONStringify(payload)
    /\ String(JsNumber(7)) = "7"
    /\ String(JsObject(<<Field("x", JsNumber(1))>>)) = "[object Object]"
    /\ JSONStringify(JsNull) = Some("null")
    /\ JSONStringify(JsObject(<<Field("result", JsString("ok")), Field("code", JsNumber(10))>>))
          = Some("{\"result\":\"ok\",\"code\":10}")

\* An object payload with 'output' and a model-role content with a plain object payload
FunctionResponseWitness ==
    /\ Translated
    /\ Len(SourceContents) = 2
    /\ SourceContents[2].role = "model"
    /\ OutboundMessages =
          << ChatMessage("tool", Some("out"), Some("call_2")),
             ChatMessage("tool", Some("{\"result\":\"ok\",\"code\":10}"), Some("call_4")) >>

(***************************************************************************)
(* C14: toMessages returns exactly one message per content, in the same   *)
(* order, and never drops a content whose parts are empty or missing:     *)
(* such a content yields a message with empty content and its role.  Role *)
(* 'model' becomes 'assistant', every other role is kept unless a         *)
(* functionResponse part forces 'tool', and a content with only text      *)
(* parts yields the concatenation of its texts in order.                  *)
(***************************************************************************)
OnlyTextParts(c) ==
    /\ c.parts # None
    /\ \A k \in 1..Len(c.parts[1]) :
         /\ c.parts[1][k].text # None
         /\ c.parts[1][k].functionCall = None
         /\ c.parts[1][k].functionResponse = None

RECURSIVE TextsUpTo(_, _)
\* The texts of the first n parts, in order
TextsUpTo(parts, n) ==
    IF n = 0 THEN "" ELSE TextsUpTo(parts, n - 1) \o parts[n].text[1]

OneMessagePerContent ==
    Translated =>
       /\ Len(OutboundMessages) = Len(SourceContents)
       /\ \A i \in 1..Len(SourceContents) :
            LET c == SourceContents[i]
                msg == OutboundMessages[i]
            IN  /\ msg.role = IF ResponsePositions(c) # {} THEN "tool"
                              ELSE IF c.role = "model" THEN "assistant"
                              ELSE c.role
                /\ (c.parts = None \/ c.parts = Some(<<>>)) => msg.content = Some("")
                /\ OnlyTextParts(c) => msg.content = Some(TextsUpTo(c.parts[1], Len(c.parts[1])))

\* A content with an empty parts array followed by a model content of two texts
OneMessagePerContentWitness ==
    /\ Translated
    /\ SourceContents = << Content("user", Some(<<>>)),
                           Content("model", Some(<<TextOnlyPart("Hi, "), TextOnlyPart("there")>>)) >>
    /\ OutboundMessages = << ChatMessage("user", Some(""), None),
                             ChatMessage("assistant", Some("Hi, there"), None) >>

(***************************************************************************)
(* Reading the sampling parameters                                         *)
(***************************************************************************)
\* The name under which a sampling parameter of the request is sent
OutboundName(key) == IF key = "maxOutputTokens" THEN "max_tokens" ELSE key

\* The sampling fields present in the request config
SourceParams == IF request.config = None THEN {} ELSE DOMAIN request.config[1]

OutboundParams == requestConfig[1].params

(***************************************************************************)
(* C15 as claimed: sampling parameters are forwarded 1:1 by name except   *)
(* maxOutputTokens, sent as max_tokens.  For every sampling parameter the *)
(* outbound request of generateContent and generateContentStream carries  *)
(* it if and only if it is present in the source request config; none is  *)
(* defaulted and none that is present is left out.                        *)
(***************************************************************************)
EverySamplingParamForwarded ==
    requestConfig # None =>
       /\ \A key \in SamplingKeys :
            /\ OutboundName(key) \in DOMAIN OutboundParams <=> key \in SourceParams
            /\ key \in SourceParams => OutboundParams[OutboundName(key)] = request.config[1][key]
       /\ DOMAIN OutboundParams \subseteq {OutboundName(key) : key \in SamplingKeys}

(***************************************************************************)
(* C15 amended: generateContent and generateContentStream forward exactly *)
(* three sampling parameters of the request config, each if and only if   *)
(* it is present there and with its source value: temperature and top_p   *)
(* under their own names and maxOutputTokens as max_tokens.  None is      *)
(* defaulted; any other sampling field of the request config, such as     *)
(* top_k or topP, is not sent.                                            *)
(***************************************************************************)
ForwardedKeys == {"temperature", "maxOutputTokens", "top_p"}

ThreeSamplingParamsForwarded ==
    requestConfig # None =>
       /\ \A key \in ForwardedKeys :
            /\ OutboundName(key) \in DOMAIN OutboundParams <=> key \in SourceParams
            /\ key \in SourceParams => OutboundParams[OutboundName(key)] = request.config[1][key]
       /\ DOMAIN OutboundParams \subseteq {OutboundName(key) : key \in ForwardedKeys}

\* A streaming request with temperature 0, a token limit and top_k: top_k is not sent
ThreeSamplingParamsWitness ==
    /\ requestConfig # None
    /\ requestConfig[1].stream
    /\ request.config # None
    /\ SourceParams = {"temperature", "maxOutputTokens", "top_k"}
    /\ request.config[1]["temperature"] = 0
    /\ DOMAIN OutboundParams = {"temperature", "max_tokens"}
    /\ OutboundParams["temperature"] = 0
    /\ OutboundParams["max_tokens"] = request.config[1]["maxOutputTokens"]

(***************************************************************************)
(* C16: a call-time provider failure is never swallowed or retried and    *)
(* reaches the caller wrapped with the provider identity, for every       *)
(* provider (openai, deepseek, ollama, local), in generateContent and in  *)
(* generateContentStream: the provider call is attempted exactly once and *)
(* its failure is raised again as an error that names the backend.        *)
(* Only generateContent wraps, and only for 'local' and 'ollama'.         *)
(***************************************************************************)
BackendTag(providerName) ==
    CASE providerName = "local" -> "Local provider error: "
      [] providerName = "ollama" -> "Ollama provider error: "
      [] providerName = "deepseek" -> "DeepSeek provider error: "
      [] OTHER -> "OpenAI provider error: "

ProviderFailureWrapped ==
    providerError # None =>
       /\ pc = "threw"
       /\ createCalls = 1
       /\ result.error = <<BackendTag(adapterConfig.provider), providerError[1]>>

(***************************************************************************)
(* C18: generateContent on a provider reply whose choice has no message,  *)
(* or a message with no content and no tool calls, returns a response     *)
(* with empty text and no function calls instead of failing.              *)
(* Reading .content of an absent message throws.                          *)
(***************************************************************************)
EmptyReplyTolerated ==
    (completion # None
       /\ \/ completion[1].choices[1].message = None
          \/ /\ completion[1].choices[1].message[1].content = None
             /\ completion[1].choices[1].message[1].tool_calls = None) =>
       /\ pc = "returned"
       /\ result.response.text = ""
       /\ result.response.functionCalls = None

(***************************************************************************)
(* C19: the stream normalizer neither loses nor duplicates text.  For any *)
(* chunk sequence, once the stream is exhausted the concatenation of the  *)
(* text of all emitted responses equals the concatenation of all content  *)
(* deltas received, however the stream ends (finish_reason 'length' or    *)
(* none on the last chunk included).                                      *)
(* Text still buffered when the stream ends is never emitted.             *)
(***************************************************************************)
RECURSIVE EmittedText(_)
EmittedText(responses) ==
    IF responses = <<>> THEN "" ELSE Head(responses).text \o EmittedText(Tail(responses))

StreamTextConserved == pc = "end" => EmittedText(emitted) = TextIn(consumed)

(***************************************************************************)
(* C20: the API key handed to an OpenAI-compatible provider comes only    *)
(* from that provider's own credential.  Across                           *)
(* createContentGeneratorConfig followed by createContentGenerator, for   *)
(* provider 'deepseek' the key passed is the value of DEEPSEEK_API_KEY,   *)
(* never OPENAI_API_KEY or GEMINI_API_KEY, for provider 'openai' it is    *)
(* OPENAI_API_KEY, and when the provider's own key is unset the           *)
(* construction fails instead of using another provider's key.            *)
(***************************************************************************)
OwnKey(providerName) ==
    IF providerName = "deepseek" THEN keyEnv.DEEPSEEK_API_KEY ELSE keyEnv.OPENAI_API_KEY

ProviderKeyProvenance ==
    (cli # None /\ facPc \in {"built", "threw"} /\ RequestedProvider \in {"openai", "deepseek"}) =>
       /\ facPc = "built" =>
            /\ NonEmpty(OwnKey(RequestedProvider))
            /\ constructed[1].apiKey = OwnKey(RequestedProvider)
       /\ ~NonEmpty(OwnKey(RequestedProvider)) =>
            /\ facPc = "threw"
            /\ constructed = <<>>

(***************************************************************************)
(* C17: no mutable state is shared across concurrent requests.  Two       *)
(* generateContentStream calls on the same adapter whose chunks arrive    *)
(* interleaved each emit exactly the responses they emit when run alone   *)
(* on the same chunks: the fragments, text buffer and flag of one call    *)
(* are never seen or reset by the other.                                  *)
(***************************************************************************)
RECURSIVE RunAlone(_)
\* The closure state and the responses of a call that consumes the chunks on its own
RunAlone(chunks) ==
    IF chunks = <<>> THEN [st |-> NewClosure, emitted |-> <<>>, last |-> None]
    ELSE LET before == RunAlone(SubSeq(chunks, 1, Len(chunks) - 1))
             resumed == IF before.last # None
                        THEN ResetAfterYield(before.st, IsDone(before.last[1]))
                        ELSE before.st
             step == ProcessChunk(resumed, chunks[Len(chunks)])
         IN  [st |-> [toolCallsBuffer |-> step.toolCallsBuffer,
                      accumulatedText |-> step.accumulatedText,
                      hasToolCalls |-> step.hasToolCalls],
              emitted |-> IF step.yields THEN Append(before.emitted, step.response)
                          ELSE before.emitted,
              last |-> IF step.yields THEN Some(chunks[Len(chunks)]) ELSE None]

ConcurrentCallsIsolated ==
    \A call \in DOMAIN calls :
       calls[call].emitted = RunAlone(calls[call].consumed).emitted

\* Call 1 holds short text while call 2 receives and emits long text, then call 1 completes
ConcurrentCallsWitness ==
    /\ DOMAIN calls = Calls
    /\ arrival = <<1, 2, 1>>
    /\ calls[1].consumed = << Chunk(None, Some(ShortText), None), Chunk(None, None, Some("stop")) >>
    /\ calls[2].consumed = << Chunk(None, Some(LongText), None) >>
    /\ Len(calls[1].emitted) = 1
    /\ calls[1].emitted[1].text = ShortText
    /\ Len(calls[2].emitted) = 1
    /\ calls[2].emitted[1].text = LongText

====
